---- MODULE Spec2Model ----
(***************************************************************************)
(* The snapshot browser session of postgres_manager (src/ui/browser.rs):   *)
(* the key-dispatch loop of run_app, the object-store client handling of   *)
(* SnapshotBrowser and the chunked download of download_snapshot.          *)
(*                                                                         *)
(* Strings are sequences of one-character strings, Option<T> is a sequence *)
(* of length 0 (None) or 1 (Some), a progress fraction is the pair         *)
(* <<downloaded, total>> and a rate is the pair <<bytes, ticks>>.          *)
(***************************************************************************)
EXTENDS Integers, Sequences, FiniteSets, TLC

VARIABLES
    config,         \* S3Config
    pg_config,      \* PostgresConfig
    s3_client,      \* Option<S3Client>: the settings the client was built from
    snapshots,      \* Vec<BackupMetadata>
    selected_idx,   \* Option<usize>
    input_mode,     \* InputMode
    input_buffer,   \* String
    focus,          \* FocusField
    popup_state,    \* PopupState
    temp_file,      \* Option<String>
    pc,             \* where run_app is: "start", "loop", "download", "done"
    result,         \* what run_app returned, once pc = "done"
    dl,             \* the locals of download_snapshot while it runs
    fs,             \* the temporary directory and the file in it
    last_call,      \* the object-store request issued by the last step, if any
    keys_read,      \* number of key events the main loop has read
    pending         \* key events waiting in the input queue during a download

vars == <<config, pg_config, s3_client, snapshots, selected_idx, input_mode,
          input_buffer, focus, popup_state, temp_file, pc, result, dl, fs,
          last_call, keys_read, pending>>

session == <<config, pg_config, s3_client, snapshots, selected_idx, input_mode,
             input_buffer, focus, popup_state, temp_file>>

----------------------------------------------------------------------------
(* Bounds of the model *)

MaxKeys == 5
MaxBuf == 2
MaxChunks == 3

----------------------------------------------------------------------------
(* Option, strings *)

None == <<>>
Some(x) == <<x>>
IsSome(o) == Len(o) = 1
IsNone(o) == Len(o) = 0
Unwrap(o) == o[1]

EmptyStr == <<>>
is_empty(s) == Len(s) = 0
\* characters the operator types while editing
TypedChars == {"a"}
\* values the command line can give a string setting
InitStrings == {EmptyStr, <<"a">>}

----------------------------------------------------------------------------
(* FocusField, InputMode, PopupState *)

S3Fields == {"Bucket", "Region", "Prefix", "EndpointUrl", "AccessKeyId",
             "SecretAccessKey", "PathStyle"}
PgFields == {"PgHost", "PgPort", "PgUsername", "PgPassword", "PgSsl", "PgDbName"}
FocusField == S3Fields \cup PgFields \cup {"SnapshotList"}

NoProgress == <<0, 1>>
NoRate == <<0, 1>>

Popup(tag, snap, progress, rate, msg) ==
    [tag |-> tag, snapshot |-> snap, progress |-> progress, rate |-> rate, msg |-> msg]
Hidden == Popup("Hidden", None, NoProgress, NoRate, "")
ConfirmRestore == Popup("ConfirmRestore", None, NoProgress, NoRate, "")
Downloading(snap, progress, rate) == Popup("Downloading", Some(snap), progress, rate, "")
ConfirmCancel(snap, progress, rate) == Popup("ConfirmCancel", Some(snap), progress, rate, "")
Error(msg) == Popup("Error", None, NoProgress, NoRate, msg)
Success(msg) == Popup("Success", None, NoProgress, NoRate, msg)
TestS3Result(msg) == Popup("TestS3Result", None, NoProgress, NoRate, msg)
TestPgResult(msg) == Popup("TestPgResult", None, NoProgress, NoRate, msg)

----------------------------------------------------------------------------
(* The object store: what a listing and a fetch can answer *)

Obj(key, size, lm) == [key |-> key, size |-> size, last_modified |-> lm]
ObjA == Obj(Some("k1"), Some(1), Some(1))
ObjB == Obj(Some("k2"), Some(2), Some(2))
ObjC == Obj(Some("k3"), Some(1), None)
ObjD == Obj(None, Some(2), Some(3))
\* the contents of a successful ListObjectsV2 response
ListResponses == {<<>>, <<ObjA>>, <<ObjA, ObjB>>, <<ObjA, ObjC, ObjB>>, <<ObjD, ObjA>>}
\* sizes of the chunks a body stream yields
ChunkSizes == {1, 2}

RECURSIVE SeqSum(_)
SeqSum(s) == IF s = <<>> THEN 0 ELSE s[1] + SeqSum(Tail(s))

Bodies == UNION {[1..n -> ChunkSizes] : n \in 1..MaxChunks}

----------------------------------------------------------------------------
(* SnapshotBrowser: client construction and listing *)

\* Err(message) of the first empty required setting, None for Ok(())
verify_s3_settings(cfg) ==
    IF is_empty(cfg.bucket) THEN Some("Bucket name is required")
    ELSE IF is_empty(cfg.region) THEN Some("Region is required")
    ELSE IF is_empty(cfg.endpoint_url) THEN Some("Endpoint URL is required")
    ELSE IF is_empty(cfg.access_key_id) THEN Some("Access Key ID is required")
    ELSE IF is_empty(cfg.secret_access_key) THEN Some("Secret Access Key is required")
    ELSE None

set_error(cfg, message) == [cfg EXCEPT !.error_message = message]

HttpPrefix == <<"h", "t", "t", "p">>
starts_with_http(s) == Len(s) >= 4 /\ SubSeq(s, 1, 4) = HttpPrefix

\* the client that the SDK builder yields for these settings
BuildClient(cfg) ==
    [region |-> cfg.region,
     endpoint_url |-> IF starts_with_http(cfg.endpoint_url)
                      THEN cfg.endpoint_url
                      ELSE HttpPrefix \o <<":", "/", "/">> \o cfg.endpoint_url,
     access_key_id |-> cfg.access_key_id,
     secret_access_key |-> cfg.secret_access_key,
     path_style |-> cfg.path_style]

\* init_s3_client: [err, config, s3_client]
init_s3_client(cfg, client) ==
    LET v == verify_s3_settings(cfg) IN
    IF IsSome(v)
    THEN [err |-> v, config |-> set_error(cfg, v), s3_client |-> client]
    ELSE [err |-> None, config |-> set_error(cfg, None),
          s3_client |-> Some(BuildClient(cfg))]

RECURSIVE InsertByLastModified(_, _)
\* x placed after every entry that is not older than x (a stable sort's step)
InsertByLastModified(x, sorted) ==
    IF sorted = <<>> THEN <<x>>
    ELSE IF sorted[1].last_modified >= x.last_modified
         THEN <<sorted[1]>> \o InsertByLastModified(x, Tail(sorted))
         ELSE <<x>> \o sorted

\* the entries left in the order the provider returned them
KeepResponseOrder(s) == s

RECURSIVE SortNewestFirst(_)
\* sort_by(|a, b| b.last_modified.cmp(&a.last_modified)), stable
SortNewestFirst(s) ==
    IF s = <<>> THEN <<>>
    ELSE InsertByLastModified(s[Len(s)], SortNewestFirst(SubSeq(s, 1, Len(s) - 1)))

RECURSIVE CompleteObjects(_)
\* the objects of a response that carry key, size and last_modified
CompleteObjects(contents) ==
    IF contents = <<>> THEN <<>>
    ELSE LET o == contents[1] IN
         (IF IsSome(o.key) /\ IsSome(o.size) /\ IsSome(o.last_modified)
          THEN <<[key |-> Unwrap(o.key), size |-> Unwrap(o.size),
                  last_modified |-> Unwrap(o.last_modified)]>>
          ELSE <<>>) \o CompleteObjects(Tail(contents))

\* as SelectAfterLoad, but an index past the end of the new list is kept
SelectAfterLoadNoClamp(sel, snaps) ==
    IF snaps # <<>> /\ IsNone(sel) THEN Some(0)
    ELSE IF snaps = <<>> THEN None
    ELSE sel

\* as SelectAfterLoad, but a selection outlives a list that became empty
SelectAfterLoadKeptOnEmpty(sel, snaps) ==
    IF snaps = <<>> THEN sel
    ELSE IF IsNone(sel) THEN Some(0)
    ELSE IF Unwrap(sel) >= Len(snaps) THEN Some(Len(snaps) - 1)
    ELSE sel

\* the selection after a listing that produced snaps (indices from 0)
SelectAfterLoad(sel, snaps) ==
    IF snaps # <<>> /\ IsNone(sel) THEN Some(0)
    ELSE IF snaps = <<>> THEN None
    ELSE IF Unwrap(sel) >= Len(snaps) THEN Some(Len(snaps) - 1)
    ELSE sel

\* the listing request and the answer it got
ListCall(client, cfg, resp) ==
    Some([op |-> "list_objects_v2", client |-> client, bucket |-> cfg.bucket,
          key |-> IF is_empty(cfg.prefix) THEN None ELSE Some(cfg.prefix),
          answer |-> resp])

\* load_snapshots, the provider answering resp:
\* [err, config, s3_client, snapshots, selected_idx, call]
load_snapshots(cfg, client, snaps, sel, resp) ==
    LET init == IF IsNone(client) THEN init_s3_client(cfg, client)
                ELSE [err |-> None, config |-> cfg, s3_client |-> client]
    IN
    IF IsSome(init.err)
    THEN [err |-> init.err, config |-> init.config, s3_client |-> init.s3_client,
          snapshots |-> snaps, selected_idx |-> sel, call |-> None]
    ELSE IF resp.ok
    THEN LET new == SortNewestFirst(CompleteObjects(resp.contents)) IN
         [err |-> None, config |-> init.config, s3_client |-> init.s3_client,
          snapshots |-> new, selected_idx |-> SelectAfterLoad(sel, new),
          call |-> ListCall(Unwrap(init.s3_client), init.config, resp)]
    ELSE [err |-> Some("Failed to list objects: " \o resp.msg),
          config |-> set_error(init.config, Some("Failed to list objects: " \o resp.msg)),
          s3_client |-> init.s3_client, snapshots |-> snaps, selected_idx |-> sel,
          call |-> ListCall(Unwrap(init.s3_client), init.config, resp)]

\* what the provider can answer to a listing
ListAnswers ==
    {[ok |-> TRUE, contents |-> c, msg |-> ""] : c \in ListResponses}
    \cup {[ok |-> FALSE, contents |-> <<>>, msg |-> "service error"]}

selected_snapshot == 
    IF IsSome(selected_idx) /\ Unwrap(selected_idx) < Len(snapshots)
    THEN Some(snapshots[Unwrap(selected_idx) + 1])
    ELSE None

----------------------------------------------------------------------------
(* The session at construction (run_tui, SnapshotBrowser::new) *)

\* polls, draws: the key checks and the redraws made since the last chunk was
\* written
NoDownload ==
    [snapshot |-> None, total |-> 0, downloaded |-> 0, body |-> <<>>,
     since |-> 0, last_bytes |-> 0, current_rate |-> NoRate,
     polls |-> 0, draws |-> 0]

NoFiles == [dir |-> FALSE, file |-> None]

TempPath == "pg-backup-XXXX/backup.sql"

Init ==
    /\ \E b \in InitStrings :
          config = [bucket |-> b, region |-> <<"a">>, prefix |-> EmptyStr,
                    endpoint_url |-> <<"a">>, access_key_id |-> <<"a">>,
                    secret_access_key |-> <<"a">>, path_style |-> FALSE,
                    error_message |-> None]
    /\ pg_config = [host |-> None, port |-> None, username |-> None,
                    password |-> None, use_ssl |-> FALSE, db_name |-> None]
    /\ s3_client = None
    /\ snapshots = <<>>
    /\ selected_idx = None
    /\ input_mode = "Normal"
    /\ input_buffer = EmptyStr
    /\ focus = "SnapshotList"
    /\ popup_state = Hidden
    /\ temp_file = None
    /\ pc = "start"
    /\ result = None
    /\ dl = NoDownload
    /\ fs = NoFiles
    /\ last_call = None
    /\ keys_read = 0
    /\ pending = <<>>

\* run_app before its loop: the initial load, whose failure is only logged
InitialLoad ==
    /\ pc = "start"
    /\ \E resp \in ListAnswers :
         LET l == load_snapshots(config, s3_client, snapshots, selected_idx, resp) IN
         /\ config' = l.config
         /\ s3_client' = l.s3_client
         /\ snapshots' = l.snapshots
         /\ selected_idx' = l.selected_idx
         /\ last_call' = l.call
    /\ pc' = "loop"
    /\ UNCHANGED <<pg_config, input_mode, input_buffer, focus, popup_state,
                   temp_file, result, dl, fs, keys_read, pending>>

----------------------------------------------------------------------------
(* Conversions between settings and the edit buffer *)

Digits == <<"0", "1", "2", "3", "4", "5", "6", "7", "8", "9">>
DigitChars == {Digits[i] : i \in 1..10}
DigitValue(c) == (CHOOSE i \in 1..10 : Digits[i] = c) - 1

RECURSIVE u16_to_string(_)
\* port.to_string()
u16_to_string(n) ==
    IF n < 10 THEN <<Digits[n + 1]>>
    ELSE u16_to_string(n \div 10) \o <<Digits[(n % 10) + 1]>>

RECURSIVE DecimalValue(_, _)
DecimalValue(s, acc) ==
    IF s = <<>> THEN acc ELSE DecimalValue(Tail(s), acc * 10 + DigitValue(s[1]))

U16Max == 65535

\* as parse_u16, but a value past u16::MAX is cut to its low 16 bits
parse_u16_wrapping(s) ==
    LET body == IF s # <<>> /\ s[1] = "+" THEN Tail(s) ELSE s IN
    IF body = <<>> \/ \E i \in 1..Len(body) : body[i] \notin DigitChars THEN None
    ELSE Some(DecimalValue(body, 0) % (U16Max + 1))

\* str::parse::<u16>: an optional '+', then digits, the value at most u16::MAX
parse_u16(s) ==
    LET body == IF s # <<>> /\ s[1] = "+" THEN Tail(s) ELSE s IN
    IF body = <<>> \/ \E i \in 1..Len(body) : body[i] \notin DigitChars THEN None
    ELSE IF Len(body) > 5 /\ \E i \in 1..(Len(body) - 5) : body[i] # "0" THEN None
    ELSE IF DecimalValue(body, 0) > U16Max THEN None
    ELSE Some(DecimalValue(body, 0))

bool_to_string(b) ==
    IF b THEN <<"t", "r", "u", "e">> ELSE <<"f", "a", "l", "s", "e">>

lower_char(c) ==
    CASE c = "T" -> "t" [] c = "R" -> "r" [] c = "U" -> "u" [] c = "E" -> "e"
      [] c = "A" -> "a" [] OTHER -> c
to_lowercase(s) == [i \in 1..Len(s) |-> lower_char(s[i])]
\* as parse_flag, but the comparison is made without lowering the case
parse_flag_exact(s) == s = <<"t", "r", "u", "e">>

parse_flag(s) == to_lowercase(s) = <<"t", "r", "u", "e">>

unwrap_or_default(o) == IF IsSome(o) THEN Unwrap(o) ELSE EmptyStr

\* as FieldText, but the buffer is left as the last edit left it
StaleFieldText(f) == input_buffer

\* the text the edit key copies into the buffer for the focused field
FieldText(f) ==
    CASE f = "SnapshotList" -> EmptyStr
      [] f = "Bucket" -> config.bucket
      [] f = "Region" -> config.region
      [] f = "Prefix" -> config.prefix
      [] f = "EndpointUrl" -> config.endpoint_url
      [] f = "AccessKeyId" -> config.access_key_id
      [] f = "SecretAccessKey" -> config.secret_access_key
      [] f = "PathStyle" -> bool_to_string(config.path_style)
      [] f = "PgHost" -> unwrap_or_default(pg_config.host)
      [] f = "PgPort" -> IF IsSome(pg_config.port)
                         THEN u16_to_string(Unwrap(pg_config.port)) ELSE EmptyStr
      [] f = "PgUsername" -> unwrap_or_default(pg_config.username)
      [] f = "PgPassword" -> unwrap_or_default(pg_config.password)
      [] f = "PgSsl" -> bool_to_string(pg_config.use_ssl)
      [] f = "PgDbName" -> unwrap_or_default(pg_config.db_name)

\* the fields in the order of the arms of the Tab match
TabOrder ==
    <<"SnapshotList", "Bucket", "Region", "Prefix", "EndpointUrl", "AccessKeyId",
      "SecretAccessKey", "PathStyle", "PgHost", "PgPort", "PgUsername",
      "PgPassword", "PgSsl", "PgDbName">>

\* as NextFocus, but the last field is followed by itself
NextFocusNoWrap(f) ==
    LET i == CHOOSE k \in 1..Len(TabOrder) : TabOrder[k] = f
    IN IF i = Len(TabOrder) THEN f ELSE TabOrder[i + 1]

\* Tab: the successor of a field
NextFocus(f) ==
    CASE f = "SnapshotList" -> "Bucket"
      [] f = "Bucket" -> "Region"
      [] f = "Region" -> "Prefix"
      [] f = "Prefix" -> "EndpointUrl"
      [] f = "EndpointUrl" -> "AccessKeyId"
      [] f = "AccessKeyId" -> "SecretAccessKey"
      [] f = "SecretAccessKey" -> "PathStyle"
      [] f = "PathStyle" -> "PgHost"
      [] f = "PgHost" -> "PgPort"
      [] f = "PgPort" -> "PgUsername"
      [] f = "PgUsername" -> "PgPassword"
      [] f = "PgPassword" -> "PgSsl"
      [] f = "PgSsl" -> "PgDbName"
      [] f = "PgDbName" -> "SnapshotList"

ShortcutKeys == {"b", "R", "x", "E", "a", "s", "h", "p", "u", "f", "l"}
ShortcutFocus(k) ==
    CASE k = "b" -> "Bucket" [] k = "R" -> "Region" [] k = "x" -> "Prefix"
      [] k = "E" -> "EndpointUrl" [] k = "a" -> "AccessKeyId"
      [] k = "s" -> "SecretAccessKey" [] k = "h" -> "PgHost" [] k = "p" -> "PgPort"
      [] k = "u" -> "PgUsername" [] k = "f" -> "PgPassword" [] k = "l" -> "PgSsl"

\* as next, but from the last entry the selection goes round to the first
next_wrapping(sel, snaps) ==
    IF IsSome(sel)
    THEN IF Unwrap(sel) + 1 < Len(snaps) THEN Some(Unwrap(sel) + 1) ELSE Some(0)
    ELSE IF snaps # <<>> THEN Some(0) ELSE sel

\* SnapshotBrowser::next
next(sel, snaps) ==
    IF IsSome(sel)
    THEN IF Unwrap(sel) + 1 < Len(snaps) THEN Some(Unwrap(sel) + 1) ELSE sel
    ELSE IF snaps # <<>> THEN Some(0) ELSE sel

\* SnapshotBrowser::previous
previous(sel, snaps) ==
    IF IsSome(sel)
    THEN IF Unwrap(sel) > 0 THEN Some(Unwrap(sel) - 1) ELSE sel
    ELSE IF snaps # <<>> THEN Some(Len(snaps) - 1) ELSE sel

\* the Enter arm of Editing mode up to the end of its match on the focus:
\* the buffer parsed and stored into the focused field
CommitStore ==
    LET b == input_buffer IN
    [config |->
        CASE focus = "Bucket" -> [config EXCEPT !.bucket = b]
          [] focus = "Region" -> [config EXCEPT !.region = b]
          [] focus = "Prefix" -> [config EXCEPT !.prefix = b]
          [] focus = "EndpointUrl" -> [config EXCEPT !.endpoint_url = b]
          [] focus = "AccessKeyId" -> [config EXCEPT !.access_key_id = b]
          [] focus = "SecretAccessKey" -> [config EXCEPT !.secret_access_key = b]
          [] focus = "PathStyle" -> [config EXCEPT !.path_style = parse_flag(b)]
          [] OTHER -> config,
     pg_config |->
        CASE focus = "PgHost" -> [pg_config EXCEPT !.host = Some(b)]
          [] focus = "PgPort" ->
                IF is_empty(b) THEN [pg_config EXCEPT !.port = None]
                ELSE IF IsSome(parse_u16(b))
                     THEN [pg_config EXCEPT !.port = parse_u16(b)]
                     ELSE pg_config
          [] focus = "PgUsername" -> [pg_config EXCEPT !.username = Some(b)]
          [] focus = "PgPassword" -> [pg_config EXCEPT !.password = Some(b)]
          [] focus = "PgSsl" -> [pg_config EXCEPT !.use_ssl = parse_flag(b)]
          [] focus = "PgDbName" -> [pg_config EXCEPT !.db_name = Some(b)]
          [] OTHER -> pg_config,
     popup_state |->
        IF focus = "PgPort" /\ ~is_empty(b) /\ IsNone(parse_u16(b))
        THEN Error("Invalid port number") ELSE popup_state,
     input_mode |-> "Normal",
     s3_client |-> s3_client]

----------------------------------------------------------------------------
(* run_app: one iteration of the loop that reads a key, Normal mode *)

\* the end of every iteration: a Success popup is shown for a second and cleared
after_iteration(p) == IF p.tag = "Success" THEN Hidden ELSE p

ReadKey(mode) ==
    /\ pc = "loop"
    /\ input_mode = mode
    /\ keys_read < MaxKeys
    /\ keys_read' = keys_read + 1
    /\ pending' = pending

OkResult(artifact) == Some([ok |-> TRUE, artifact |-> artifact])
ErrResult == Some([ok |-> FALSE, artifact |-> None])

\* 'q'
KeyQuit ==
    /\ ReadKey("Normal")
    /\ pc' = "done"
    /\ result' = OkResult(None)
    /\ last_call' = None
    /\ UNCHANGED <<session, dl, fs>>

\* the popup after Esc in Normal mode
EscPopup(p) ==
    CASE p.tag = "Downloading" -> ConfirmCancel(Unwrap(p.snapshot), p.progress, p.rate)
      [] p.tag = "ConfirmRestore" -> Hidden
      [] p.tag \in {"TestS3Result", "TestPgResult"} -> Hidden
      [] OTHER -> p

KeyEsc ==
    /\ ReadKey("Normal")
    /\ popup_state' = after_iteration(EscPopup(popup_state))
    /\ last_call' = None
    /\ UNCHANGED <<config, pg_config, s3_client, snapshots, selected_idx, input_mode,
                   input_buffer, focus, temp_file, pc, result, dl, fs>>

\* the popup after 'n', and the focus
DeclinePopup(p) ==
    CASE p.tag = "ConfirmCancel" -> Downloading(Unwrap(p.snapshot), p.progress, p.rate)
      [] p.tag = "ConfirmRestore" -> Hidden
      [] OTHER -> p

KeyN ==
    /\ ReadKey("Normal")
    /\ popup_state' = after_iteration(DeclinePopup(popup_state))
    /\ focus' = IF popup_state.tag \in {"ConfirmCancel", "ConfirmRestore"}
                THEN focus ELSE "PgDbName"
    /\ last_call' = None
    /\ UNCHANGED <<config, pg_config, s3_client, snapshots, selected_idx, input_mode,
                   input_buffer, temp_file, pc, result, dl, fs>>

\* Enter in Normal mode
KeyEnter ==
    /\ ReadKey("Normal")
    /\ popup_state' = after_iteration(
            IF focus = "SnapshotList" /\ IsSome(selected_snapshot)
            THEN ConfirmRestore ELSE popup_state)
    /\ last_call' = None
    /\ UNCHANGED <<config, pg_config, s3_client, snapshots, selected_idx, input_mode,
                   input_buffer, focus, temp_file, pc, result, dl, fs>>

KeyTab ==
    /\ ReadKey("Normal")
    /\ focus' = NextFocus(focus)
    /\ popup_state' = after_iteration(popup_state)
    /\ last_call' = None
    /\ UNCHANGED <<config, pg_config, s3_client, snapshots, selected_idx, input_mode,
                   input_buffer, temp_file, pc, result, dl, fs>>

\* 'e': both arms of the match copy the focused field into the buffer
KeyE ==
    /\ ReadKey("Normal")
    /\ input_mode' = "Editing"
    /\ input_buffer' = FieldText(focus)
    /\ popup_state' = after_iteration(popup_state)
    /\ last_call' = None
    /\ UNCHANGED <<config, pg_config, s3_client, snapshots, selected_idx,
                   focus, temp_file, pc, result, dl, fs>>

\* 'b', 'R', 'x', 'E', 'a', 's', 'h', 'p', 'u', 'f', 'l'
KeyShortcut ==
    /\ ReadKey("Normal")
    /\ \E k \in ShortcutKeys : focus' = ShortcutFocus(k)
    /\ popup_state' = after_iteration(popup_state)
    /\ last_call' = None
    /\ UNCHANGED <<config, pg_config, s3_client, snapshots, selected_idx, input_mode,
                   input_buffer, temp_file, pc, result, dl, fs>>

\* Down, 'j'
KeyDown ==
    /\ ReadKey("Normal")
    /\ selected_idx' = IF focus = "SnapshotList"
                       THEN next(selected_idx, snapshots) ELSE selected_idx
    /\ popup_state' = after_iteration(popup_state)
    /\ last_call' = None
    /\ UNCHANGED <<config, pg_config, s3_client, snapshots, input_mode,
                   input_buffer, focus, temp_file, pc, result, dl, fs>>

\* Up, 'k'
KeyUp ==
    /\ ReadKey("Normal")
    /\ selected_idx' = IF focus = "SnapshotList"
                       THEN previous(selected_idx, snapshots) ELSE selected_idx
    /\ popup_state' = after_iteration(popup_state)
    /\ last_call' = None
    /\ UNCHANGED <<config, pg_config, s3_client, snapshots, input_mode,
                   input_buffer, focus, temp_file, pc, result, dl, fs>>

\* 'r'
KeyR ==
    /\ ReadKey("Normal")
    /\ \E resp \in ListAnswers :
         LET l == load_snapshots(config, s3_client, snapshots, selected_idx, resp) IN
         /\ config' = l.config
         /\ s3_client' = l.s3_client
         /\ snapshots' = l.snapshots
         /\ selected_idx' = l.selected_idx
         /\ last_call' = l.call
         /\ popup_state' = after_iteration(
                IF IsSome(l.err) THEN Error("Error: " \o Unwrap(l.err))
                ELSE popup_state)
    /\ UNCHANGED <<pg_config, input_mode, input_buffer, focus, temp_file, pc,
                   result, dl, fs>>

\* any other key, and any event that is not a key
KeyOther ==
    /\ ReadKey("Normal")
    /\ popup_state' = after_iteration(popup_state)
    /\ last_call' = None
    /\ UNCHANGED <<config, pg_config, s3_client, snapshots, selected_idx, input_mode,
                   input_buffer, focus, temp_file, pc, result, dl, fs>>

----------------------------------------------------------------------------
(* Connection tests *)

\* what the provider can answer to ListBuckets
BucketAnswers == {[ok |-> TRUE, msg |-> ""], [ok |-> FALSE, msg |-> "service error"]}

\* as test_s3_connection, but a test that succeeds leaves the popup as it was
test_s3_connection_silent(cfg, client, popup, resp) ==
    LET init == IF IsNone(client) THEN init_s3_client(cfg, client)
                ELSE [err |-> None, config |-> cfg, s3_client |-> client]
        call == Some([op |-> "list_buckets", client |-> Unwrap(init.s3_client),
                      bucket |-> EmptyStr, key |-> None])
    IN
    IF IsSome(init.err)
    THEN [err |-> init.err, config |-> init.config, s3_client |-> init.s3_client,
          popup |-> Error("Failed to initialize S3 client: " \o Unwrap(init.err)),
          call |-> None]
    ELSE IF resp.ok
    THEN [err |-> None, config |-> init.config, s3_client |-> init.s3_client,
          popup |-> popup, call |-> call]
    ELSE [err |-> Some("Failed to connect to S3: " \o resp.msg),
          config |-> init.config, s3_client |-> init.s3_client,
          popup |-> Error("Failed to connect to S3: " \o resp.msg), call |-> call]

\* test_s3_connection, the provider answering resp: [err, config, s3_client, popup, call]
test_s3_connection(cfg, client, popup, resp) ==
    LET init == IF IsNone(client) THEN init_s3_client(cfg, client)
                ELSE [err |-> None, config |-> cfg, s3_client |-> client]
        call == Some([op |-> "list_buckets", client |-> Unwrap(init.s3_client),
                      bucket |-> EmptyStr, key |-> None])
    IN
    IF IsSome(init.err)
    THEN [err |-> init.err, config |-> init.config, s3_client |-> init.s3_client,
          popup |-> Error("Failed to initialize S3 client: " \o Unwrap(init.err)),
          call |-> None]
    ELSE IF resp.ok
    THEN [err |-> None, config |-> init.config, s3_client |-> init.s3_client,
          popup |-> TestS3Result("Successfully connected to S3!"), call |-> call]
    ELSE [err |-> Some("Failed to connect to S3: " \o resp.msg),
          config |-> init.config, s3_client |-> init.s3_client,
          popup |-> Error("Failed to connect to S3: " \o resp.msg), call |-> call]

\* test_pg_connection: [err, popup]; the connection string is not spelled out
test_pg_connection(pg) ==
    IF IsNone(pg.host) \/ is_empty(Unwrap(pg.host))
    THEN [err |-> Some("PostgreSQL host is required"),
          popup |-> Error("PostgreSQL host is required")]
    ELSE IF IsNone(pg.port)
    THEN [err |-> Some("PostgreSQL port is required"),
          popup |-> Error("PostgreSQL port is required")]
    ELSE IF IsNone(pg.username) \/ is_empty(Unwrap(pg.username))
    THEN [err |-> Some("PostgreSQL username is required"),
          popup |-> Error("PostgreSQL username is required")]
    ELSE [err |-> None, popup |-> TestPgResult("Connection string")]

\* 't'
KeyT ==
    /\ ReadKey("Normal")
    /\ \E resp \in BucketAnswers :
         LET t == test_s3_connection(config, s3_client, popup_state, resp)
             g == test_pg_connection(pg_config)
         IN
         IF focus \in S3Fields
         THEN /\ config' = t.config
              /\ s3_client' = t.s3_client
              /\ last_call' = t.call
              /\ popup_state' = after_iteration(
                     IF IsSome(t.err) THEN Error("Error: " \o Unwrap(t.err)) ELSE t.popup)
         ELSE /\ popup_state' = after_iteration(
                     IF focus \in PgFields
                     THEN IF IsSome(g.err) THEN Error("Error: " \o Unwrap(g.err))
                          ELSE g.popup
                     ELSE popup_state)
              /\ last_call' = None
              /\ UNCHANGED <<config, s3_client>>
    /\ UNCHANGED <<pg_config, snapshots, selected_idx, input_mode, input_buffer,
                   focus, temp_file, pc, result, dl, fs>>

----------------------------------------------------------------------------
(* run_app: one iteration of the loop that reads a key, Editing mode *)

\* Enter: on the snapshot list the restore confirmation opens; on a field the
\* buffer is stored, the client is built and, if that succeeds, the listing
\* is loaded; neither failure is shown
EditEnter ==
    /\ ReadKey("Editing")
    /\ IF focus = "SnapshotList"
       THEN /\ popup_state' = after_iteration(ConfirmRestore)
            /\ last_call' = None
            /\ UNCHANGED <<config, pg_config, s3_client, snapshots, selected_idx,
                           input_mode>>
       ELSE \E resp \in ListAnswers :
            LET c == CommitStore
                i == init_s3_client(c.config, c.s3_client)
                l == load_snapshots(i.config, i.s3_client, snapshots, selected_idx, resp)
            IN
            /\ input_mode' = c.input_mode
            /\ pg_config' = c.pg_config
            /\ popup_state' = after_iteration(c.popup_state)
            /\ IF IsSome(i.err)
               THEN /\ config' = i.config
                    /\ s3_client' = i.s3_client
                    /\ last_call' = None
                    /\ UNCHANGED <<snapshots, selected_idx>>
               ELSE /\ config' = l.config
                    /\ s3_client' = l.s3_client
                    /\ snapshots' = l.snapshots
                    /\ selected_idx' = l.selected_idx
                    /\ last_call' = l.call
    /\ UNCHANGED <<input_buffer, focus, temp_file, pc, result, dl, fs>>

\* a character is appended to the buffer
EditChar ==
    /\ ReadKey("Editing")
    /\ Len(input_buffer) < MaxBuf
    /\ \E c \in TypedChars : input_buffer' = Append(input_buffer, c)
    /\ popup_state' = after_iteration(popup_state)
    /\ last_call' = None
    /\ UNCHANGED <<config, pg_config, s3_client, snapshots, selected_idx, input_mode,
                   focus, temp_file, pc, result, dl, fs>>

\* String::pop
pop(s) == IF s = <<>> THEN s ELSE SubSeq(s, 1, Len(s) - 1)

EditBackspace ==
    /\ ReadKey("Editing")
    /\ input_buffer' = pop(input_buffer)
    /\ popup_state' = after_iteration(popup_state)
    /\ last_call' = None
    /\ UNCHANGED <<config, pg_config, s3_client, snapshots, selected_idx, input_mode,
                   focus, temp_file, pc, result, dl, fs>>

EditEsc ==
    /\ ReadKey("Editing")
    /\ input_mode' = "Normal"
    /\ popup_state' = after_iteration(popup_state)
    /\ last_call' = None
    /\ UNCHANGED <<config, pg_config, s3_client, snapshots, selected_idx,
                   input_buffer, focus, temp_file, pc, result, dl, fs>>

\* any other key, and any event that is not a key
EditOther ==
    /\ ReadKey("Editing")
    /\ popup_state' = after_iteration(popup_state)
    /\ last_call' = None
    /\ UNCHANGED <<config, pg_config, s3_client, snapshots, selected_idx, input_mode,
                   input_buffer, focus, temp_file, pc, result, dl, fs>>

----------------------------------------------------------------------------
(* download_snapshot *)

RECURSIVE GCD(_, _)
GCD(a, b) == IF b = 0 THEN a ELSE GCD(b, a % b)
\* the value n / d of a float division, as a fraction in lowest terms
Frac(n, d) == IF n = 0 THEN <<0, 1>> ELSE <<n \div GCD(n, d), d \div GCD(n, d)>>

\* quarter-second ticks: the rate is sampled once this much time (0.5 s) has
\* passed
RateInterval == 2

\* as rate_sampled, but the interval has to be exceeded
rate_sampled_strict(elapsed) == elapsed > RateInterval

\* if elapsed >= 0.5
rate_sampled(elapsed) == elapsed >= RateInterval
\* time that can pass between two chunks, in ticks
ChunkTicks == {0, 1}
\* what the non-blocking poll after a chunk can find
PollEvents == {"none", "Esc", "y", "n", "other"}

\* the temporary directory when the TempDir value of run_app goes out of scope
drop_temp_dir(f) == NoFiles

\* what the fetch can come to before the first chunk is read
FetchOutcomes ==
    {[kind |-> k, body |-> <<>>] :
        k \in {"tempdir_err", "get_err", "no_length", "create_err"}}
    \cup {[kind |-> "ok", body |-> b] : b \in Bodies}

\* the request for the object, with what came of it (outcome)
GetCall(client, cfg, snap, outcome) ==
    Some([op |-> "get_object", client |-> client, bucket |-> cfg.bucket,
          key |-> Some(snap.key), outcome |-> outcome])

\* as FetchFailurePopup, but the return for a missing length sets no popup and
\* leaves the Downloading popup of the start
FetchFailurePopupLengthSilent(kind, snap) ==
    CASE kind = "get_err" -> Error("Failed to download backup: service error")
      [] kind = "no_length" -> Downloading(snap, Frac(0, 1), Frac(0, 1))
      [] kind = "create_err" -> Error("Download error: io error")

\* the popup when the fetch ends before the first chunk is read
FetchFailurePopup(kind, snap) ==
    CASE kind = "get_err" -> Error("Failed to download backup: service error")
      [] kind = "no_length" -> Error("Could not determine file size")
      [] kind = "create_err" -> Error("Download error: io error")

\* 'y': a confirmed cancel (first arm), a confirmed restore (second arm) that
\* creates the temporary directory (run_app returns the error if it cannot) and
\* runs download_snapshot up to its chunk loop, or nothing
KeyY ==
    /\ ReadKey("Normal")
    /\ IF popup_state.tag = "ConfirmCancel"
       THEN /\ popup_state' = after_iteration(Hidden)
            /\ temp_file' = None
            /\ last_call' = None
            /\ UNCHANGED <<pc, result, dl, fs>>
       ELSE IF popup_state.tag = "ConfirmRestore" /\ IsSome(selected_snapshot)
       THEN LET snap == Unwrap(selected_snapshot) IN
            \E o \in FetchOutcomes :
            IF o.kind = "tempdir_err"
            THEN /\ pc' = "done"
                 /\ result' = ErrResult
                 /\ last_call' = None
                 /\ UNCHANGED <<popup_state, temp_file, dl, fs>>
            ELSE
            /\ temp_file' = Some(TempPath)
            /\ result' = result
            /\ IF IsNone(s3_client)
               THEN /\ popup_state' = after_iteration(Error("S3 client not initialized"))
                    /\ last_call' = None
                    /\ fs' = drop_temp_dir(fs)
                    /\ UNCHANGED <<pc, dl>>
               ELSE /\ last_call' = GetCall(Unwrap(s3_client), config, snap, o.kind)
                    /\ IF o.kind = "ok"
                       THEN /\ popup_state' = Downloading(snap, Frac(0, 1), Frac(0, 1))
                            /\ pc' = "download"
                            /\ dl' = [snapshot |-> Some(snap), total |-> SeqSum(o.body),
                                      downloaded |-> 0, body |-> o.body, since |-> 0,
                                      last_bytes |-> 0, current_rate |-> Frac(0, 1),
                                      polls |-> 0, draws |-> 0]
                            /\ fs' = [dir |-> TRUE, file |-> Some(0)]
                       ELSE /\ popup_state' =
                                    after_iteration(FetchFailurePopup(o.kind, snap))
                            /\ fs' = drop_temp_dir(fs)
                            /\ UNCHANGED <<pc, dl>>
       ELSE /\ popup_state' = after_iteration(popup_state)
            /\ last_call' = None
            /\ UNCHANGED <<temp_file, pc, result, dl, fs>>
    /\ UNCHANGED <<config, pg_config, s3_client, snapshots, selected_idx, input_mode,
                   input_buffer, focus>>

\* as PollPopup, but Esc ends the download at once
PollPopupAbortOnEsc(p, k, snap, progress, rate) ==
    IF k = "Esc" THEN Hidden
    ELSE CASE p.tag = "ConfirmCancel" -> p
           [] p.tag = "Hidden" -> p
           [] OTHER -> Downloading(snap, progress, rate)

\* the popup once the poll after a chunk has found event k
PollPopup(p, k, snap, progress, rate) ==
    IF k = "Esc" THEN ConfirmCancel(snap, progress, rate)
    ELSE CASE p.tag = "ConfirmCancel" -> p
           [] p.tag = "Hidden" -> p
           [] OTHER -> Downloading(snap, progress, rate)

\* as RedrawsInTurn, but the Esc branch goes on to the next chunk without a
\* redraw
RedrawsInTurnNoneOnEsc(p, k) ==
    IF k = "Esc" THEN 0
    ELSE CASE p.tag = "ConfirmCancel" -> 1
           [] p.tag = "Hidden" -> 0
           [] OTHER -> 1

\* the calls of terminal.draw in one turn of the chunk loop, after its chunk
\* is written: one in the Esc branch of the poll, one in the ConfirmCancel
\* arm, none in the Hidden arm (it returns), one after the last arm
RedrawsInTurn(p, k) ==
    IF k = "Esc" THEN 1
    ELSE CASE p.tag = "ConfirmCancel" -> 1
           [] p.tag = "Hidden" -> 0
           [] OTHER -> 1

\* one turn of the chunk loop: a chunk is read and written, progress and rate
\* are recomputed, the poll is made and the frame is redrawn
\* (dt: the time since the last turn, k: what the poll finds)
DlTurn(dt, k) ==
    /\ pc = "download"
    /\ dl.body # <<>>
    /\   LET chunk == Head(dl.body)
             downloaded == dl.downloaded + chunk
             progress == Frac(downloaded, dl.total)
             elapsed == dl.since + dt
             sample == rate_sampled(elapsed)
             rate == IF sample THEN Frac(4 * (downloaded - dl.last_bytes), elapsed)
                     ELSE dl.current_rate
             popup == PollPopup(popup_state, k, Unwrap(dl.snapshot), progress, rate)
             cancelled == k # "Esc" /\ popup_state.tag = "Hidden"
         IN
         /\ popup_state' = popup
         /\ IF cancelled
            THEN /\ temp_file' = None
                 /\ pc' = "loop"
                 /\ dl' = NoDownload
                 /\ fs' = drop_temp_dir(fs)
            ELSE /\ dl' = [dl EXCEPT !.downloaded = downloaded,
                                     !.body = Tail(dl.body),
                                     !.since = IF sample THEN 0 ELSE elapsed,
                                     !.last_bytes = IF sample THEN downloaded
                                                    ELSE dl.last_bytes,
                                     !.current_rate = rate,
                                     !.polls = 1,
                                     !.draws = RedrawsInTurn(popup_state, k)]
                 /\ fs' = [fs EXCEPT !.file = Some(Unwrap(fs.file) + chunk)]
                 /\ UNCHANGED <<temp_file, pc>>
    /\ last_call' = None
    /\ UNCHANGED <<config, pg_config, s3_client, snapshots, selected_idx, input_mode,
                   input_buffer, focus, result, keys_read>>

\* a turn of the chunk loop whose poll finds the one event, if any, that came
\* in since the last poll
DlChunk ==
    /\ pending = <<>>
    /\ \E dt \in ChunkTicks, k \in PollEvents : DlTurn(dt, k)
    /\ pending' = pending

\* as DlIoError, but run_app leaves the popup as the download left it
DlIoErrorNotShown ==
    /\ pc = "download"
    /\ popup_state' = popup_state
    /\ pc' = "loop"
    /\ dl' = NoDownload
    /\ fs' = drop_temp_dir(fs)
    /\ last_call' = None
    /\ UNCHANGED <<config, pg_config, s3_client, snapshots, selected_idx, input_mode,
                   input_buffer, focus, temp_file, result, keys_read, pending>>

\* reading a chunk or writing it fails: download_snapshot returns the error and
\* run_app shows it
DlIoError ==
    /\ pc = "download"
    /\ popup_state' = after_iteration(Error("Download error: io error"))
    /\ pc' = "loop"
    /\ dl' = NoDownload
    /\ fs' = drop_temp_dir(fs)
    /\ last_call' = None
    /\ UNCHANGED <<config, pg_config, s3_client, snapshots, selected_idx, input_mode,
                   input_buffer, focus, temp_file, result, keys_read, pending>>

\* the body is exhausted: the path is recorded, Success is shown for a second,
\* download_snapshot returns the path and run_app returns it to its caller
DlFinish ==
    /\ pc = "download"
    /\ dl.body = <<>>
    /\ temp_file' = Some(TempPath)
    /\ popup_state' = Success("Download complete")
    /\ pc' = "done"
    /\ result' = OkResult(Some(TempPath))
    /\ fs' = drop_temp_dir(fs)
    /\ last_call' = None
    /\ UNCHANGED <<config, pg_config, s3_client, snapshots, selected_idx, input_mode,
                   input_buffer, focus, dl, keys_read, pending>>

----------------------------------------------------------------------------

Next ==
    \/ InitialLoad
    \/ KeyQuit \/ KeyEsc \/ KeyY \/ KeyN \/ KeyT \/ KeyEnter \/ KeyTab \/ KeyE
    \/ KeyShortcut \/ KeyDown \/ KeyUp \/ KeyR \/ KeyOther
    \/ EditEnter \/ EditChar \/ EditBackspace \/ EditEsc \/ EditOther
    \/ DlChunk \/ DlIoError \/ DlFinish

Spec == Init /\ [][Next]_vars

----------------------------------------------------------------------------
(* The edit of the database port, from buffers that hold digits *)

\* what the operator can have typed into the buffer
PortTexts ==
    {EmptyStr, <<"8", "0">>, <<"a">>, <<"8", "a">>,
     <<"+", "5">>, <<"-", "1">>, <<"0", "0", "7">>,
     <<"6", "5", "5", "3", "5">>, <<"6", "5", "5", "3", "6">>,
     <<"7", "0", "0", "0", "0", "0">>}

\* a session started without a bucket name, after the initial load, 'p', 'e'
\* and the typing of a text; keys are counted from here
PortInit ==
    /\ config = [bucket |-> EmptyStr, region |-> <<"a">>, prefix |-> EmptyStr,
                 endpoint_url |-> <<"a">>, access_key_id |-> <<"a">>,
                 secret_access_key |-> <<"a">>, path_style |-> FALSE,
                 error_message |-> Some("Bucket name is required")]
    /\ \E port \in {None, Some(5432)} :
          pg_config = [host |-> None, port |-> port, username |-> None,
                       password |-> None, use_ssl |-> FALSE, db_name |-> None]
    /\ s3_client = None
    /\ snapshots = <<>>
    /\ selected_idx = None
    /\ input_mode = "Editing"
    /\ input_buffer \in PortTexts
    /\ focus = "PgPort"
    /\ popup_state = Hidden
    /\ temp_file = None
    /\ pc = "loop"
    /\ result = None
    /\ dl = NoDownload
    /\ fs = NoFiles
    /\ last_call = None
    /\ keys_read = 0
    /\ pending = <<>>

PortNext ==
    \/ EditEnter \/ EditChar \/ EditBackspace \/ EditEsc \/ EditOther
    \/ KeyE \/ KeyEsc

PortSpec == PortInit /\ [][PortNext]_vars

----------------------------------------------------------------------------
(* The edit of any field, from buffers that hold flags, numbers and text *)

\* what the operator can have typed into the buffer
EditTexts ==
    {EmptyStr, <<"a">>, <<"t", "r", "u", "e">>, <<"T", "R", "U", "E">>,
     <<"T", "r", "u", "e">>, <<"f", "a", "l", "s", "e">>, <<"y", "e", "s">>,
     <<"0">>, <<"8", "0">>, <<"0", "0", "7">>, <<"+", "5">>,
     <<"6", "5", "5", "3", "6">>, <<"8", "a">>}

\* a session started without a bucket name, after the initial load, the move
\* to a field, 'e' and the typing of a text; keys are counted from here
EditInit ==
    /\ config = [bucket |-> EmptyStr, region |-> <<"a">>, prefix |-> EmptyStr,
                 endpoint_url |-> <<"a">>, access_key_id |-> <<"a">>,
                 secret_access_key |-> <<"a">>, path_style |-> FALSE,
                 error_message |-> Some("Bucket name is required")]
    /\ pg_config = [host |-> None, port |-> None, username |-> None,
                    password |-> None, use_ssl |-> FALSE, db_name |-> None]
    /\ s3_client = None
    /\ snapshots = <<>>
    /\ selected_idx = None
    /\ input_mode = "Editing"
    /\ input_buffer \in EditTexts
    /\ focus \in S3Fields \cup PgFields
    /\ popup_state = Hidden
    /\ temp_file = None
    /\ pc = "loop"
    /\ result = None
    /\ dl = NoDownload
    /\ fs = NoFiles
    /\ last_call = None
    /\ keys_read = 0
    /\ pending = <<>>

EditNext == EditEnter \/ EditBackspace \/ EditEsc \/ KeyE

EditSpec == EditInit /\ [][EditNext]_vars

----------------------------------------------------------------------------
(* The rendering of secrets (tui.rs draw code, ui/renderer.rs) *)

\* the number of bytes of a character in UTF-8; the two named characters stand
\* for a two-byte and a three-byte character
utf8_len(c) == CASE c = "U+00E9" -> 2 [] c = "U+65E5" -> 3 [] OTHER -> 1

RECURSIVE byte_len(_)
\* str::len: the length in bytes
byte_len(s) == IF s = <<>> THEN 0 ELSE utf8_len(s[1]) + byte_len(Tail(s))

\* str::is_char_boundary
is_char_boundary(s, k) == \E n \in 0..Len(s) : byte_len(SubSeq(s, 1, n)) = k

\* &s[..k] and &s[k..] for a k that is a character boundary
slice_to(s, k) ==
    SubSeq(s, 1, CHOOSE n \in 0..Len(s) : byte_len(SubSeq(s, 1, n)) = k)
slice_from(s, k) ==
    SubSeq(s, 1 + (CHOOSE n \in 0..Len(s) : byte_len(SubSeq(s, 1, n)) = k), Len(s))

\* "*".repeat(n)
repeat_star(n) == [i \in 1..n |-> "*"]

\* mask_key of tui.rs: Some(text), or None when a slice index is not a
\* character boundary and the slicing panics
mask_key(key) ==
    IF byte_len(key) <= 8 THEN Some(repeat_star(byte_len(key)))
    ELSE IF ~is_char_boundary(key, 4) \/ ~is_char_boundary(key, byte_len(key) - 4)
    THEN None
    ELSE Some(slice_to(key, 4) \o <<".", ".", ".", ".", ".">>
              \o slice_from(key, byte_len(key) - 4))

\* tui.rs: the secret key and the database password as drawn
tui_secret_key_text == mask_key(config.secret_access_key)
tui_password_text == mask_key(unwrap_or_default(pg_config.password))

\* ui/renderer.rs: the database password as drawn
renderer_password_text ==
    IF IsSome(pg_config.password) THEN repeat_star(8) ELSE EmptyStr

\* secrets the operator can have typed into the buffer
MaskTexts ==
    {EmptyStr,
     <<"a", "b", "c", "d">>,
     <<"a", "b", "c", "d", "e", "f", "g", "h">>,
     <<"A", "B", "C", "D", "1", "2", "3", "4", "E">>,
     <<"A", "B", "C", "D", "1", "2", "3", "4", "E", "F", "G", "H">>,
     <<"U+00E9", "U+00E9">>,
     <<"U+65E5", "U+65E5", "U+65E5">>}

\* a session started without a bucket name, after the initial load, the move
\* to a secret field, 'e' and the typing of a secret; keys are counted from here
MaskInit ==
    /\ config = [bucket |-> EmptyStr, region |-> <<"a">>, prefix |-> EmptyStr,
                 endpoint_url |-> <<"a">>, access_key_id |-> <<"a">>,
                 secret_access_key |-> <<"a">>, path_style |-> FALSE,
                 error_message |-> Some("Bucket name is required")]
    /\ pg_config = [host |-> None, port |-> None, username |-> None,
                    password |-> None, use_ssl |-> FALSE, db_name |-> None]
    /\ s3_client = None
    /\ snapshots = <<>>
    /\ selected_idx = None
    /\ input_mode = "Editing"
    /\ input_buffer \in MaskTexts
    /\ focus \in {"SecretAccessKey", "PgPassword"}
    /\ popup_state = Hidden
    /\ temp_file = None
    /\ pc = "loop"
    /\ result = None
    /\ dl = NoDownload
    /\ fs = NoFiles
    /\ last_call = None
    /\ keys_read = 0
    /\ pending = <<>>

MaskNext == EditEnter \/ EditBackspace \/ EditEsc \/ KeyE \/ KeyTab

MaskSpec == MaskInit /\ [][MaskNext]_vars

----------------------------------------------------------------------------
(* The chunk loop with keys waiting in the input queue *)

\* the most key events that wait in the queue at once
MaxPending == 2

\* the operator presses a key while the transfer runs
KeyArrives ==
    /\ pc = "download"
    /\ Len(pending) < MaxPending
    /\ \E k \in PollEvents \ {"none"} : pending' = Append(pending, k)
    /\ UNCHANGED <<config, pg_config, s3_client, snapshots, selected_idx, input_mode,
                   input_buffer, focus, popup_state, temp_file, pc, result, dl, fs,
                   last_call, keys_read>>

\* a turn of the chunk loop: poll(0) tells whether an event waits and read()
\* takes the first one off the queue
DlChunkQueued ==
    /\ \E dt \in ChunkTicks :
          DlTurn(dt, IF pending = <<>> THEN "none" ELSE Head(pending))
    /\ pending' = IF pending = <<>> THEN pending ELSE Tail(pending)

\* a session in which the download of the only snapshot has just started:
\* Enter and 'y' have been read and the response has come with its length
QueueInit ==
    LET cfg == [bucket |-> <<"a">>, region |-> <<"a">>, prefix |-> EmptyStr,
                endpoint_url |-> <<"a">>, access_key_id |-> <<"a">>,
                secret_access_key |-> <<"a">>, path_style |-> FALSE,
                error_message |-> None]
        client == init_s3_client(cfg, None).s3_client
        snap == [key |-> "k1", size |-> 1, last_modified |-> 1]
    IN
    /\ config = cfg
    /\ pg_config = [host |-> None, port |-> None, username |-> None,
                    password |-> None, use_ssl |-> FALSE, db_name |-> None]
    /\ s3_client = client
    /\ snapshots = <<snap>>
    /\ selected_idx = Some(0)
    /\ input_mode = "Normal"
    /\ input_buffer = EmptyStr
    /\ focus = "SnapshotList"
    /\ popup_state = Downloading(snap, Frac(0, 1), Frac(0, 1))
    /\ temp_file = Some(TempPath)
    /\ pc = "download"
    /\ result = None
    /\ \E body \in Bodies :
          dl = [snapshot |-> Some(snap), total |-> SeqSum(body), downloaded |-> 0,
                body |-> body, since |-> 0, last_bytes |-> 0,
                current_rate |-> Frac(0, 1), polls |-> 0, draws |-> 0]
    /\ fs = [dir |-> TRUE, file |-> Some(0)]
    /\ last_call = GetCall(Unwrap(client), cfg, snap, "ok")
    /\ keys_read = 2
    /\ pending = <<>>

QueueNext == KeyArrives \/ DlChunkQueued \/ DlFinish \/ DlIoError

QueueSpec == QueueInit /\ [][QueueNext]_vars

----------------------------------------------------------------------------
(* The chunk loop with chunks that come at uneven intervals *)

\* time that can pass between two chunks, in ticks: none, a quarter of a
\* second, three quarters
RateTicks == {0, 1, 3}

DlChunkTimed ==
    /\ pending = <<>>
    /\ \E dt \in RateTicks, k \in PollEvents : DlTurn(dt, k)
    /\ pending' = pending

RateNext == DlChunkTimed \/ DlFinish \/ DlIoError

RateSpec == QueueInit /\ [][RateNext]_vars

----------------------------------------------------------------------------
(* tui.rs: the snapshot list of the session that main.rs runs *)

\* the largest usize the model's integers can hold; it stands for usize::MAX
UsizeMax == 2147483647

\* a further object of a listing: no size
ObjE == Obj(Some("k0"), None, Some(4))
\* ListObjectsV2Output.contents: None, or Some(objects)
TuiListContents ==
    {None} \cup {Some(c) : c \in ListResponses \cup {<<ObjB, ObjE, ObjA>>}}
TuiListAnswers ==
    {[ok |-> TRUE, contents |-> c, msg |-> ""] : c \in TuiListContents}
    \cup {[ok |-> FALSE, contents |-> None, msg |-> "service error"]}

\* Err(message) of the first missing setting, None for Ok(())
tui_verify_s3_settings(cfg) ==
    IF is_empty(cfg.bucket) THEN Some("S3 bucket name is required")
    ELSE IF is_empty(cfg.region) THEN Some("AWS region is required")
    ELSE IF IsNone(cfg.access_key_id) \/ IsNone(cfg.secret_access_key)
         THEN Some("AWS credentials are required")
    ELSE None

\* init_s3_client: [err, config, s3_client]
tui_init_s3_client(cfg, client) ==
    LET v == tui_verify_s3_settings(cfg) IN
    IF IsSome(v)
    THEN [err |-> v, config |-> set_error(cfg, Some("Error: " \o Unwrap(v))),
          s3_client |-> client]
    ELSE [err |-> None, config |-> cfg,
          s3_client |-> Some([region |-> cfg.region,
                              endpoint_url |-> cfg.endpoint_url,
                              access_key_id |-> cfg.access_key_id,
                              secret_access_key |-> cfg.secret_access_key,
                              path_style |-> cfg.path_style])]

RECURSIVE tui_objects(_)
\* the objects of a response that carry key and last_modified; size.unwrap_or(0)
tui_objects(contents) ==
    IF contents = <<>> THEN <<>>
    ELSE LET o == contents[1] IN
         (IF IsSome(o.key) /\ IsSome(o.last_modified)
          THEN <<[key |-> Unwrap(o.key),
                  size |-> IF IsSome(o.size) THEN Unwrap(o.size) ELSE 0,
                  last_modified |-> Unwrap(o.last_modified)]>>
          ELSE <<>>) \o tui_objects(Tail(contents))

\* the keys of the model in the order of String::cmp
KeyOrder == <<"k0", "k1", "k2", "k3">>
KeyRank(k) == CHOOSE i \in 1..Len(KeyOrder) : KeyOrder[i] = k

RECURSIVE InsertByKey(_, _)
InsertByKey(x, sorted) ==
    IF sorted = <<>> THEN <<x>>
    ELSE IF KeyRank(sorted[1].key) <= KeyRank(x.key)
         THEN <<sorted[1]>> \o InsertByKey(x, Tail(sorted))
         ELSE <<x>> \o sorted

RECURSIVE SortByKey(_)
\* sort_by(|a, b| a.key.cmp(&b.key)), stable
SortByKey(s) ==
    IF s = <<>> THEN <<>>
    ELSE InsertByKey(s[Len(s)], SortByKey(SubSeq(s, 1, Len(s) - 1)))

\* load_snapshots of tui.rs: [err, config, s3_client, snapshots, selected_idx]
tui_load_snapshots(cfg, client, snaps, sel, resp) ==
    LET init == IF IsNone(client) THEN tui_init_s3_client(cfg, client)
                ELSE [err |-> None, config |-> cfg, s3_client |-> client]
    IN
    IF IsSome(init.err)
    THEN [err |-> init.err, config |-> init.config, s3_client |-> init.s3_client,
          snapshots |-> snaps, selected_idx |-> sel]
    ELSE IF is_empty(init.config.bucket)
    THEN [err |-> None, config |-> init.config, s3_client |-> init.s3_client,
          snapshots |-> snaps, selected_idx |-> sel]
    ELSE IF ~resp.ok
    THEN [err |-> Some("Failed to list objects in bucket: " \o resp.msg),
          config |-> set_error(init.config,
                        Some("Error: Failed to list objects in bucket: " \o resp.msg)),
          s3_client |-> init.s3_client, snapshots |-> snaps, selected_idx |-> sel]
    ELSE LET new == IF IsSome(resp.contents)
                    THEN SortByKey(tui_objects(Unwrap(resp.contents)))
                    ELSE snaps
         IN [err |-> None,
             config |-> set_error(init.config,
                           IF new = <<>> THEN Some("No snapshots found in bucket")
                           ELSE None),
             s3_client |-> init.s3_client,
             snapshots |-> new,
             selected_idx |-> IF new = <<>> THEN sel ELSE Some(0)]

\* self.snapshots.len() - 1 in usize: with an empty list the subtraction
\* overflows, which panics in a build with overflow checks and wraps to
\* usize::MAX in one without. The set of the outcomes it can have.
len_minus_one(snaps) ==
    IF Len(snaps) = 0
    THEN {[panic |-> TRUE, value |-> 0], [panic |-> FALSE, value |-> UsizeMax]}
    ELSE {[panic |-> FALSE, value |-> Len(snaps) - 1]}

Panics == [panic |-> TRUE, sel |-> None]
Selects(i) == [panic |-> FALSE, sel |-> Some(i)]

\* next of tui.rs: the outcomes it can have
tui_next(sel, snaps) ==
    IF IsNone(sel) THEN {Selects(0)}
    ELSE {IF last.panic THEN Panics
          ELSE IF Unwrap(sel) >= last.value THEN Selects(0)
          ELSE Selects(Unwrap(sel) + 1) : last \in len_minus_one(snaps)}

\* previous of tui.rs: the outcomes it can have
tui_previous(sel, snaps) ==
    IF IsNone(sel) THEN {Selects(0)}
    ELSE IF Unwrap(sel) = 0
    THEN {IF last.panic THEN Panics ELSE Selects(last.value) :
              last \in len_minus_one(snaps)}
    ELSE {Selects(Unwrap(sel) - 1)}

\* SnapshotBrowser::new of tui.rs, with settings that may lack a bucket
TuiInit ==
    /\ \E b \in InitStrings :
          config = [bucket |-> b, region |-> <<"a">>, prefix |-> EmptyStr,
                    endpoint_url |-> None, access_key_id |-> Some(<<"a">>),
                    secret_access_key |-> Some(<<"a">>), path_style |-> FALSE,
                    error_message |-> None]
    /\ pg_config = [host |-> None, port |-> None, username |-> None,
                    password |-> None, use_ssl |-> FALSE, db_name |-> None]
    /\ s3_client = None
    /\ snapshots = <<>>
    /\ selected_idx = None
    /\ input_mode = "Normal"
    /\ input_buffer = EmptyStr
    /\ focus = "SnapshotList"
    /\ popup_state = Hidden
    /\ temp_file = None
    /\ pc = "start"
    /\ result = None
    /\ dl = NoDownload
    /\ fs = NoFiles
    /\ last_call = None
    /\ keys_read = 0
    /\ pending = <<>>

TuiLoad ==
    /\ \E resp \in TuiListAnswers :
         LET l == tui_load_snapshots(config, s3_client, snapshots, selected_idx, resp) IN
         /\ config' = l.config
         /\ s3_client' = l.s3_client
         /\ snapshots' = l.snapshots
         /\ selected_idx' = l.selected_idx
    /\ UNCHANGED <<pg_config, input_mode, input_buffer, focus, popup_state,
                   temp_file, result, dl, fs, last_call>>

\* run_app of tui.rs before its loop
TuiInitialLoad ==
    /\ pc = "start"
    /\ TuiLoad
    /\ pc' = "loop"
    /\ UNCHANGED <<keys_read, pending>>

\* 'r'
TuiKeyR ==
    /\ ReadKey("Normal")
    /\ TuiLoad
    /\ pc' = pc

\* a handler that has one of the outcomes when the list has the focus
TuiMove(outcomes) ==
    /\ IF focus = "SnapshotList"
       THEN \E o \in outcomes :
               IF o.panic
               THEN pc' = "panicked" /\ selected_idx' = selected_idx
               ELSE pc' = pc /\ selected_idx' = o.sel
       ELSE pc' = pc /\ selected_idx' = selected_idx
    /\ UNCHANGED <<config, pg_config, s3_client, snapshots, input_mode,
                   input_buffer, focus, popup_state, temp_file, result, dl, fs,
                   last_call>>

\* Down or 'j'
TuiKeyDown ==
    /\ ReadKey("Normal")
    /\ TuiMove(tui_next(selected_idx, snapshots))

\* Up or 'k'
TuiKeyUp ==
    /\ ReadKey("Normal")
    /\ TuiMove(tui_previous(selected_idx, snapshots))

\* Tab
TuiKeyTab ==
    /\ ReadKey("Normal")
    /\ focus' = NextFocus(focus)
    /\ UNCHANGED <<config, pg_config, s3_client, snapshots, selected_idx,
                   input_mode, input_buffer, popup_state, temp_file, pc, result,
                   dl, fs, last_call>>

TuiNext == TuiInitialLoad \/ TuiKeyR \/ TuiKeyDown \/ TuiKeyUp \/ TuiKeyTab

TuiSpec == TuiInit /\ [][TuiNext]_vars

----------------------------------------------------------------------------
(* Claims *)

\* C1: when the operator answers 'y' to ConfirmCancel during a download, the
\* transfer aborts: download_snapshot yields no artifact, temp_file is absent,
\* the partial file is gone and the session is at Hidden / Normal.
C1_ConfirmedCancelAborts ==
    [][(popup_state.tag = "ConfirmCancel" /\ \E dt \in ChunkTicks : DlTurn(dt, "y"))
        => /\ pc' = "loop"
           /\ IsNone(temp_file')
           /\ IsNone(fs'.file)
           /\ popup_state' = Hidden
           /\ input_mode' = "Normal"]_vars

\* C2: while ConfirmCancel is shown and unanswered, no chunk is read from the
\* body and no byte is appended to the temporary file.
C2_NoChunkWhileConfirmCancel ==
    [][(pc = "download" /\ popup_state.tag = "ConfirmCancel"
            /\ popup_state'.tag = "ConfirmCancel")
        => (dl'.body = dl.body /\ fs'.file = fs.file)]_vars

\* C3: when the operator answers 'n' to ConfirmCancel during a download, the
\* popup returns to Downloading with the progress and rate captured in
\* ConfirmCancel and the download goes on.
C3_ContinueRestoresDownloading ==
    [][(popup_state.tag = "ConfirmCancel" /\ \E dt \in ChunkTicks : DlTurn(dt, "n"))
        => /\ popup_state' = Downloading(Unwrap(popup_state.snapshot),
                                         popup_state.progress, popup_state.rate)
           /\ pc' = "download"]_vars

\* a download ends as cancelled: control is back in the loop with no error shown
CancelReturn == pc = "download" /\ pc' = "loop" /\ popup_state'.tag # "Error"

\* C4: Esc while Downloading only opens ConfirmCancel (the transfer stays alive,
\* its file and recorded path kept), and a download ends as cancelled only in
\* the turn that reads 'y' while ConfirmCancel is shown, never by time passing.
C4_EscOnlyAsksForConfirmation ==
    [][/\ (popup_state.tag = "Downloading" /\ \E dt \in ChunkTicks : DlTurn(dt, "Esc"))
            => (popup_state'.tag = "ConfirmCancel" /\ pc' = "download"
                /\ IsSome(fs'.file) /\ temp_file' = temp_file)
       /\ (popup_state.tag = "Downloading" /\ KeyEsc)
            => (popup_state'.tag = "ConfirmCancel" /\ temp_file' = temp_file)
       /\ CancelReturn
            => (popup_state.tag = "ConfirmCancel"
                /\ \E dt \in ChunkTicks : DlTurn(dt, "y"))]_vars

\* Esc has been read during a download and the transfer is still running
C4_Witness ==
    /\ pc = "download"
    /\ popup_state.tag = "ConfirmCancel"
    /\ dl.downloaded > 0
    /\ fs.file = Some(dl.downloaded)
    /\ dl.body # <<>>

\* C5: temp_file is present only if a download has run to completion.
C5_ArtifactPathOnlyWhenComplete ==
    IsSome(temp_file) =>
        (pc = "done" /\ IsSome(result) /\ Unwrap(result).artifact = temp_file)

\* C6: when run_app returns an artifact path, the file at that path exists.
C6_ArtifactExistsOnReturn ==
    (pc = "done" /\ IsSome(result) /\ IsSome(Unwrap(result).artifact))
        => IsSome(fs.file)

\* C7: while a popup is shown, Tab, 'e', the focus shortcuts, j/k/Up/Down, 'r'
\* and 't' leave focus, input mode, buffer, selection, both configurations and
\* the snapshot list unchanged.
C7_PopupSuppressesBaseKeys ==
    [][(popup_state.tag # "Hidden"
            /\ (KeyTab \/ KeyE \/ KeyShortcut \/ KeyDown \/ KeyUp \/ KeyR \/ KeyT))
        => UNCHANGED <<focus, input_mode, input_buffer, selected_idx, config,
                       pg_config, snapshots>>]_vars

\* the settings a client is bound to that are among the five defining fields
BoundSettings(c) ==
    [region |-> c.region, endpoint_url |-> c.endpoint_url,
     access_key_id |-> c.access_key_id, secret_access_key |-> c.secret_access_key]

\* C8: every listing request is sent with a client built from the current
\* values of the defining fields.
C8_ListingUsesCurrentClient ==
    (IsSome(last_call) /\ Unwrap(last_call).op = "list_objects_v2")
        => BoundSettings(Unwrap(last_call).client) = BoundSettings(BuildClient(config))

\* C9: if the client handle is present, bucket, region, endpoint, access key
\* id and secret key are all non-empty.
C9_ClientImpliesValidConfig ==
    IsSome(s3_client) => IsNone(verify_s3_settings(config))

\* C10: right after the commit of an ObjectStoreConfig field has stored the
\* new value, the client handle is absent.
C10_CommitClearsClient ==
    (pc = "loop" /\ input_mode = "Editing" /\ focus \in S3Fields)
        => IsNone(CommitStore.s3_client)

\* the five required settings in the order they are validated, with the
\* message that names each
RequiredSettings ==
    <<[field |-> "bucket", message |-> "Bucket name is required"],
      [field |-> "region", message |-> "Region is required"],
      [field |-> "endpoint_url", message |-> "Endpoint URL is required"],
      [field |-> "access_key_id", message |-> "Access Key ID is required"],
      [field |-> "secret_access_key", message |-> "Secret Access Key is required"]>>

\* the message for the first required setting of cfg that is empty
FirstEmptyMessage(cfg) ==
    LET i == CHOOSE k \in 1..5 :
                /\ is_empty(cfg[RequiredSettings[k].field])
                /\ \A j \in 1..(k - 1) : ~is_empty(cfg[RequiredSettings[j].field])
    IN RequiredSettings[i].message

\* this step called init_s3_client on settings cfg, which are incomplete
InitCalledOnIncomplete(cfg) ==
    /\ IsSome(verify_s3_settings(cfg))
    /\ \/ /\ cfg = config
          /\ IsNone(s3_client)
          /\ InitialLoad \/ KeyR \/ (focus \in S3Fields /\ KeyT)
       \/ /\ cfg = CommitStore.config
          /\ focus # "SnapshotList"
          /\ EditEnter

\* C11: when init_s3_client is called with a required setting empty, the
\* client handle is absent afterwards, config.error_message names the first
\* empty setting, and the snapshot list and the selection are unchanged.
C11_ValidationFailureLeavesNoClient ==
    [][\A cfg \in {config, CommitStore.config} :
          InitCalledOnIncomplete(cfg)
            => /\ IsNone(s3_client')
               /\ config'.error_message = Some(FirstEmptyMessage(cfg))
               /\ snapshots' = snapshots
               /\ selected_idx' = selected_idx]_vars

\* the last step sent a listing request and the provider answered with a list
ListingSucceeded ==
    /\ IsSome(last_call)
    /\ Unwrap(last_call).op = "list_objects_v2"
    /\ Unwrap(last_call).answer.ok

ListedContents == Unwrap(last_call).answer.contents

IsNewestFirst(snaps) ==
    \A i, j \in 1..Len(snaps) : i < j => snaps[i].last_modified >= snaps[j].last_modified

\* snaps holds, newest first, one entry for each object of contents that
\* carries every attribute in required, and nothing else
HoldsExactly(snaps, contents, required) ==
    LET kept == {i \in 1..Len(contents) : \A a \in required : IsSome(contents[i][a])}
    IN /\ IsNewestFirst(snaps)
       /\ Len(snaps) = Cardinality(kept)
       /\ \A i \in kept : \E n \in 1..Len(snaps) :
             /\ Some(snaps[n].size) = contents[i].size
             /\ Some(snaps[n].last_modified) = contents[i].last_modified
             /\ contents[i].key \in {None, Some(snaps[n].key)}

\* C12 as stated: after a successful listing the snapshot sequence is exactly
\* the returned objects that carry a size and a last-modified time, newest first.
C12_ListingKeepsSizedAndDated ==
    ListingSucceeded
        => HoldsExactly(snapshots, ListedContents, {"size", "last_modified"})

\* C12: after a successful listing the snapshot sequence is exactly the
\* returned objects that carry a key, a size and a last-modified time, newest
\* first; nothing of the previous listing survives otherwise.
C12_ListingKeepsCompleteObjects ==
    ListingSucceeded
        => HoldsExactly(snapshots, ListedContents, {"key", "size", "last_modified"})

\* three objects were returned, one without last_modified, and two are listed
C12_Witness ==
    /\ ListingSucceeded
    /\ Len(ListedContents) = 3
    /\ \E i \in 1..3 : IsNone(ListedContents[i].last_modified)
    /\ Len(snapshots) = 2
    /\ snapshots[1].last_modified > snapshots[2].last_modified

\* the selection the policy asks for after a listing of n entries
PolicySelection(sel, n) ==
    IF n = 0 THEN None
    ELSE IF IsNone(sel) THEN Some(0)
    ELSE IF Unwrap(sel) < n - 1 THEN sel ELSE Some(n - 1)

\* C13: after a successful listing of n entries the selection is min(i, n-1)
\* if a selection i was present and n > 0, 0 if none was present and n > 0,
\* and absent if n = 0.
C13_SelectionAfterListing ==
    [][ListingSucceeded'
        => selected_idx' = PolicySelection(selected_idx, Len(snapshots'))]_vars

\* a listing has just succeeded with the second entry still selected
C13_Witness ==
    /\ ListingSucceeded
    /\ Len(snapshots) = 2
    /\ selected_idx = Some(1)

\* this step called load_snapshots and the call returned an error: the
\* settings did not validate (no request was sent) or the provider refused
ListingFailedStep ==
    \/ /\ InitialLoad \/ KeyR
       /\ IsNone(last_call') \/ ~Unwrap(last_call').answer.ok
    \/ /\ focus # "SnapshotList" /\ EditEnter
       /\ IsSome(last_call') /\ ~Unwrap(last_call').answer.ok

\* C14: whenever a listing fails (initial load, 'r', re-listing after a
\* commit) the popup becomes Error and the snapshot list and the selection
\* are as they were before the call.
C14_ListingFailureShowsError ==
    [][ListingFailedStep
        => /\ popup_state'.tag = "Error"
           /\ snapshots' = snapshots
           /\ selected_idx' = selected_idx]_vars

SelectionInRange ==
    IsNone(selected_idx)
        \/ (0 <= Unwrap(selected_idx) /\ Unwrap(selected_idx) < Len(snapshots))

\* C15: the selected index is always absent or within [0, len(snapshots));
\* Down at the last index and Up at index 0 leave it unchanged.
C15_SelectionInRangeNoWrap ==
    [][/\ SelectionInRange /\ SelectionInRange'
       /\ (KeyDown /\ focus = "SnapshotList"
              /\ selected_idx = Some(Len(snapshots) - 1))
            => selected_idx' = selected_idx
       /\ (KeyUp /\ focus = "SnapshotList" /\ selected_idx = Some(0))
            => selected_idx' = selected_idx]_vars

\* the last of two entries is selected and the list has the focus
C15_Witness ==
    /\ pc = "loop"
    /\ focus = "SnapshotList"
    /\ Len(snapshots) = 2
    /\ selected_idx = Some(1)
    /\ keys_read < MaxKeys

RECURSIVE Advance(_, _)
\* the focus after n presses of Tab from field f
Advance(f, n) == IF n = 0 THEN f ELSE Advance(NextFocus(f), n - 1)

\* C16: Tab is total and one cycle over the 14 fields: from any field 14
\* advances return to it and pass through every other field once; the list
\* is followed by the bucket and the database name by the list; the session
\* starts on the list.
C16_TabIsOneCycle ==
    /\ Cardinality(FocusField) = 14
    /\ focus \in FocusField
    /\ NextFocus(focus) \in FocusField
    /\ Advance(focus, 14) = focus
    /\ {Advance(focus, n) : n \in 0..13} = FocusField
    /\ NextFocus("SnapshotList") = "Bucket"
    /\ NextFocus("PgDbName") = "SnapshotList"
    /\ pc = "start" => focus = "SnapshotList"

\* the path-style field has the focus, which only Tab can give it
C16_Witness == pc = "loop" /\ focus = "PathStyle"

\* C17: 'e' enters Editing only from Normal mode with the focus on a field;
\* on the snapshot list it changes neither the mode nor the buffer, so
\* Editing never goes with the focus on the list.
C17_NoEditingOnSnapshotList ==
    [][/\ (KeyE /\ focus = "SnapshotList")
            => (input_mode' = "Normal" /\ input_buffer' = input_buffer)
       /\ (input_mode = "Normal" /\ input_mode' = "Editing")
            => (KeyE /\ focus # "SnapshotList")
       /\ ~(input_mode' = "Editing" /\ focus' = "SnapshotList")]_vars

\* C18: Enter in Editing mode always ends in Normal mode, whatever the
\* focused field and the buffer.
C18_CommitReturnsToNormal ==
    [][EditEnter => input_mode' = "Normal"]_vars

\* the digits of a port text, a leading '+' left out
PortDigits(s) == IF s # <<>> /\ s[1] = "+" THEN Tail(s) ELSE s

\* the text is a decimal number within 0..65535
DenotesPort(s) ==
    /\ PortDigits(s) # <<>>
    /\ \A i \in 1..Len(PortDigits(s)) : PortDigits(s)[i] \in DigitChars
    /\ DecimalValue(PortDigits(s), 0) <= U16Max

\* C19: committing the port field: an empty buffer clears the port, a buffer
\* that is a number within 0..65535 sets it to that number, and any other
\* buffer shows the "Invalid port number" error and leaves the port as it was.
C19_PortCommit ==
    [][(EditEnter /\ focus = "PgPort")
        => IF is_empty(input_buffer)
           THEN pg_config' = [pg_config EXCEPT !.port = None]
           ELSE IF DenotesPort(input_buffer)
           THEN pg_config' =
                  [pg_config EXCEPT
                      !.port = Some(DecimalValue(PortDigits(input_buffer), 0))]
           ELSE /\ popup_state' = Error("Invalid port number")
                /\ pg_config' = pg_config]_vars

\* a number past 65535 has been rejected and the port kept
C19_Witness ==
    /\ input_mode = "Normal"
    /\ focus = "PgPort"
    /\ input_buffer = <<"6", "5", "5", "3", "6">>
    /\ popup_state = Error("Invalid port number")
    /\ pg_config.port = Some(5432)

\* text is the string form of the setting that field f edits
ShowsField(f, text) ==
    LET opt(o) == (IsNone(o) /\ text = EmptyStr) \/ (IsSome(o) /\ text = Unwrap(o))
        flag(b) == (b /\ text = <<"t", "r", "u", "e">>)
                   \/ (~b /\ text = <<"f", "a", "l", "s", "e">>)
    IN CASE f = "SnapshotList" -> text = EmptyStr
         [] f = "Bucket" -> text = config.bucket
         [] f = "Region" -> text = config.region
         [] f = "Prefix" -> text = config.prefix
         [] f = "EndpointUrl" -> text = config.endpoint_url
         [] f = "AccessKeyId" -> text = config.access_key_id
         [] f = "SecretAccessKey" -> text = config.secret_access_key
         [] f = "PathStyle" -> flag(config.path_style)
         [] f = "PgHost" -> opt(pg_config.host)
         [] f = "PgPort" -> \/ IsNone(pg_config.port) /\ text = EmptyStr
                            \/ IsSome(pg_config.port) /\ DenotesPort(text)
                                 /\ DecimalValue(text, 0) = Unwrap(pg_config.port)
         [] f = "PgUsername" -> opt(pg_config.username)
         [] f = "PgPassword" -> opt(pg_config.password)
         [] f = "PgSsl" -> flag(pg_config.use_ssl)
         [] f = "PgDbName" -> opt(pg_config.db_name)

\* C20: typing and Backspace in Editing mode change only the buffer; Esc in
\* Editing mode returns to Normal with the configurations, the client, the
\* list and the selection unchanged; and 'e' fills the buffer with the
\* focused setting alone, whatever a cancelled edit left in it.
C20_EditBufferIsStaging ==
    [][/\ (EditChar \/ EditBackspace)
            => UNCHANGED <<config, pg_config, s3_client, snapshots, selected_idx,
                           input_mode, focus>>
       /\ EditEsc
            => /\ input_mode' = "Normal"
               /\ UNCHANGED <<config, pg_config, s3_client, snapshots,
                              selected_idx, focus>>
       /\ KeyE
            => /\ UNCHANGED <<config, pg_config>>
               /\ ShowsField(focus, input_buffer')]_vars

\* an edit of the region has been cancelled with a typed character in the
\* buffer: four keys read, nothing stored
C20_Witness ==
    /\ input_mode = "Normal"
    /\ focus = "Region"
    /\ keys_read = 4
    /\ input_buffer = <<"a", "a">>
    /\ config.region = <<"a">>
    /\ popup_state = Hidden

\* the fields whose setting is the text itself
TextFields ==
    {"Bucket", "Region", "Prefix", "EndpointUrl", "AccessKeyId", "SecretAccessKey",
     "PgHost", "PgUsername", "PgPassword", "PgDbName"}
FlagFields == {"PathStyle", "PgSsl"}

\* a buffer that the commit of field f stores
ValidEdit(f, b) ==
    \/ f \in TextFields \cup FlagFields
    \/ f = "PgPort" /\ (b = EmptyStr \/ DenotesPort(b))

\* the word "true" in any letter case
IsTrueText(b) ==
    /\ Len(b) = 4
    /\ b[1] \in {"t", "T"} /\ b[2] \in {"r", "R"}
    /\ b[3] \in {"u", "U"} /\ b[4] \in {"e", "E"}

RECURSIVE StripZeros(_)
StripZeros(s) == IF Len(s) > 1 /\ s[1] = "0" THEN StripZeros(Tail(s)) ELSE s

\* the text in which the value stored from buffer b is written back
CanonicalText(f, b) ==
    CASE f \in FlagFields -> IF IsTrueText(b) THEN <<"t", "r", "u", "e">>
                             ELSE <<"f", "a", "l", "s", "e">>
      [] f = "PgPort" -> IF b = EmptyStr THEN b ELSE StripZeros(PortDigits(b))
      [] OTHER -> b

\* the commit of a buffer that the focused field stores
ValidCommit ==
    EditEnter /\ focus # "SnapshotList" /\ ValidEdit(focus, input_buffer)

\* C21 (as stated): after the commit of a valid buffer b, the text that the
\* edit key puts into the buffer for the same field is b itself, for text
\* fields, the port and the two flags.
C21_RoundTripExact ==
    [][ValidCommit => FieldText(focus)' = input_buffer]_vars

\* C21 (amended): after the commit of a valid buffer b, the text that the edit
\* key puts into the buffer for the same field is b for a text field, the
\* plain decimal form of the number for the port (no sign, no leading zeros;
\* empty for an empty buffer) and "true" or "false" for a flag, "true" when b
\* is the word true in any letter case.
C21_RoundTripCanonical ==
    [][/\ ValidCommit => FieldText(focus)' = CanonicalText(focus, input_buffer)
       /\ KeyE => input_buffer' = FieldText(focus)]_vars

\* "TRUE" has been committed to the path-style flag: the flag is set and the
\* edit key would put "true" into the buffer
C21_Witness ==
    /\ input_mode = "Normal"
    /\ focus = "PathStyle"
    /\ keys_read = 1
    /\ input_buffer = <<"T", "R", "U", "E">>
    /\ config.path_style
    /\ FieldText(focus) = <<"t", "r", "u", "e">>

\* a <= b for fractions
FracLeq(a, b) == a[1] * b[2] <= b[1] * a[2]

\* the popup of a running download, which carries a progress value
ShowsProgress(p) == p.tag \in {"Downloading", "ConfirmCancel"}

\* C22: during a download the progress carried by the Downloading or
\* ConfirmCancel popup is bytes written over total, within [0,1], never
\* decreasing, 0 at the start, and 1 exactly once before a successful end; a
\* cancelled transfer never reports 1.
C22_ProgressReports ==
    [][/\ (pc = "loop" /\ pc' = "download") => popup_state'.progress = Frac(0, 1)
       /\ pc' = "download"
            => /\ ShowsProgress(popup_state')
               /\ popup_state'.progress = Frac(dl'.downloaded, dl'.total)
               /\ FracLeq(Frac(0, 1), popup_state'.progress)
               /\ FracLeq(popup_state'.progress, Frac(1, 1))
       /\ (pc = "download" /\ pc' = "download")
            => FracLeq(popup_state.progress, popup_state'.progress)
       /\ DlFinish => popup_state.progress = Frac(1, 1)
       /\ DlChunk => popup_state.progress # Frac(1, 1)
       /\ CancelReturn => popup_state.progress # Frac(1, 1)]_vars

\* C23: in download_snapshot every chunk write is followed, before the next
\* chunk is written and before the function returns, by at least one
\* non-blocking check for a key and at least one redraw.
C23_PollAndRedrawBetweenChunks ==
    (pc = "download" /\ dl.downloaded > 0) => (dl.polls >= 1 /\ dl.draws >= 1)

\* two chunks have been written, the first followed by an Esc, and a third
\* is still to come
C23_Witness ==
    /\ pc = "download"
    /\ popup_state.tag = "ConfirmCancel"
    /\ popup_state.progress = Frac(1, 3)
    /\ dl.downloaded = 2
    /\ dl.body = <<1>>
    /\ dl.polls = 1
    /\ dl.draws = 1

\* a step in which a confirmed restore fails before or during the transfer
DownloadFailed ==
    \/ /\ KeyY
       /\ popup_state.tag = "ConfirmRestore"
       /\ IsSome(selected_snapshot)
       /\ pc' # "download"
    \/ DlIoError

\* C24: when a step of a download fails, the popup becomes Error, the
\* temporary file is gone, no artifact is returned and run_app goes on reading
\* keys; run_app returns without an artifact only on the quit key.
C24_DownloadFailureKeepsSession ==
    [][/\ DownloadFailed
            => /\ popup_state'.tag = "Error"
               /\ IsNone(fs'.file)
               /\ pc' = "loop"
               /\ result' = None
       /\ (pc' = "done" /\ pc # "done" /\ ~DlFinish) => KeyQuit]_vars

\* a step that handles a key and meets an error: a listing or validation
\* failure on 'r', a client or listing failure in a commit, a port that does
\* not parse, a download_snapshot that fails
KeyHandlingFailed ==
    \/ /\ KeyR
       /\ IsNone(last_call') \/ ~Unwrap(last_call').answer.ok
    \/ /\ EditEnter
       /\ focus # "SnapshotList"
       /\ \/ IsSome(init_s3_client(CommitStore.config, CommitStore.s3_client).err)
          \/ IsSome(last_call') /\ ~Unwrap(last_call').answer.ok
          \/ focus = "PgPort" /\ ~is_empty(input_buffer) /\ ~DenotesPort(input_buffer)
    \/ DownloadFailed /\ pc' = "loop"

\* the popups that report an outcome to the operator
ReportsOutcome(p) == p.tag \in {"Error", "TestS3Result", "TestPgResult"}

\* C25: after every key whose handling meets an error the popup is Error, and
\* after 't' on a settings field it is Error or a connection test result; a
\* client or listing failure in a commit shows a popup as well.
C25_KeyErrorsShowPopup ==
    [][/\ KeyHandlingFailed => popup_state'.tag = "Error"
       /\ (KeyT /\ focus # "SnapshotList") => ReportsOutcome(popup_state')]_vars

\* run_app has returned an artifact path
ArtifactYielded ==
    pc = "done" /\ IsSome(result) /\ IsSome(Unwrap(result).artifact)

\* C26: when the artifact path is yielded after the body is exhausted, the
\* path has been recorded as the session's artifact, Success has been shown
\* and the popup has been cleared to Hidden: the path is never yielded while
\* the popup is still Success.
C26_YieldAfterSuccessCleared ==
    ArtifactYielded
        => /\ temp_file = Unwrap(result).artifact
           /\ popup_state = Hidden

\* a snapshot is selected and the index is within the list
SelectionValid ==
    /\ IsSome(selected_idx)
    /\ 0 <= Unwrap(selected_idx)
    /\ Unwrap(selected_idx) < Len(snapshots)

\* this step of the key loop called download_snapshot: the transfer runs, or
\* the call ended at once with the request sent or with the client missing
DownloadInvoked ==
    /\ pc = "loop"
    /\ \/ pc' = "download"
       \/ IsSome(last_call') /\ Unwrap(last_call').op = "get_object"
       \/ popup_state' = Error("S3 client not initialized") /\ popup_state' # popup_state

\* C27: download_snapshot is called only on 'y' in Normal mode while
\* ConfirmRestore is shown and a snapshot within the list is selected, and
\* ConfirmRestore is only ever entered with such a selection.
C27_DownloadOnlyOnConfirmedRestore ==
    [][/\ DownloadInvoked
            => /\ KeyY
               /\ input_mode = "Normal"
               /\ popup_state = ConfirmRestore
               /\ SelectionValid
       /\ (popup_state # ConfirmRestore /\ popup_state' = ConfirmRestore)
            => SelectionValid']_vars

\* C28: whenever the key loop of run_app is about to read a key the popup is
\* neither Downloading nor ConfirmCancel and no transfer is under way: the two
\* popups occur only while download_snapshot runs, and control comes back to
\* the loop only from a download that has ended.
C28_LoopNeverSeesDownloadPopups ==
    /\ ShowsProgress(popup_state) => pc = "download"
    /\ pc = "loop" => (~ShowsProgress(popup_state) /\ dl = NoDownload)

\* a transfer has failed after the request was sent and the loop is about to
\* read its third key with the error shown
C28_Witness ==
    /\ pc = "loop"
    /\ keys_read = 2
    /\ last_call = None
    /\ popup_state = Error("Download error: io error")
    /\ IsSome(temp_file)
    /\ dl = NoDownload

\* C29: 't' never changes the snapshot list or the selected index, and a test
\* run from an object-store field ends with the popup TestS3Result or Error,
\* one run from a database field with TestPgResult or Error.
C29_TestConnectionFrame ==
    [][KeyT
        => /\ snapshots' = snapshots
           /\ selected_idx' = selected_idx
           /\ focus \in S3Fields => popup_state'.tag \in {"TestS3Result", "Error"}
           /\ focus \in PgFields => popup_state'.tag \in {"TestPgResult", "Error"}]_vars

\* a connection test has succeeded with two snapshots listed and the second
\* one selected
C29_Witness ==
    /\ popup_state.tag = "TestS3Result"
    /\ IsSome(last_call)
    /\ Unwrap(last_call).op = "list_buckets"
    /\ Len(snapshots) = 2
    /\ selected_idx = Some(1)

\* this step sent the request for the object and the response carried no
\* total length
NoLengthStep ==
    /\ KeyY
    /\ IsSome(last_call')
    /\ Unwrap(last_call').op = "get_object"
    /\ Unwrap(last_call').outcome = "no_length"

\* C30: when the response to the fetch carries no total length the download
\* ends at once with the popup Error: no chunk is read, no temporary file is
\* written, the popup is not left as Downloading, no transfer is under way
\* and nothing is returned.
C30_NoLengthFailsAtOnce ==
    [][NoLengthStep
        => /\ popup_state'.tag = "Error"
           /\ pc' = "loop"
           /\ dl' = NoDownload
           /\ IsNone(fs'.file)
           /\ result' = None]_vars

\* the fetch of the second of two snapshots has ended for want of a length
C30_Witness ==
    /\ pc = "loop"
    /\ popup_state = Error("Could not determine file size")
    /\ IsSome(last_call)
    /\ Unwrap(last_call).op = "get_object"
    /\ Unwrap(last_call).key = Some("k1")
    /\ selected_idx = Some(1)
    /\ result = None

\* the rendering the masking rule gives for secret s, counted in characters
MaskedAsSpecified(s) ==
    IF Len(s) <= 8 THEN [i \in 1..Len(s) |-> "*"]
    ELSE SubSeq(s, 1, 4) \o <<".", ".", ".", ".", ".">> \o SubSeq(s, Len(s) - 3, Len(s))

\* C31: a secret of at most 8 characters is drawn as that many '*', a longer
\* one as its first 4 characters, ".....", and its last 4 characters; the
\* secret key and the database password are both drawn so.
C31_SecretsMasked ==
    /\ tui_secret_key_text = Some(MaskedAsSpecified(config.secret_access_key))
    /\ tui_password_text
         = Some(MaskedAsSpecified(unwrap_or_default(pg_config.password)))
    /\ renderer_password_text
         = MaskedAsSpecified(unwrap_or_default(pg_config.password))

\* C32: Esc in Normal mode while an Error popup is shown hides the popup.
C32_EscDismissesError ==
    [][(KeyEsc /\ popup_state.tag = "Error") => popup_state' = Hidden]_vars

\* C33: from the opening of ConfirmRestore to its confirmation the selected
\* snapshot stays the same, and 'y' fetches the object of that snapshot: the
\* object fetched is the one that was selected when the popup opened.
C33_ConfirmedSnapshotIsTheOneShown ==
    [][/\ (popup_state = ConfirmRestore /\ popup_state' = ConfirmRestore)
            => selected_snapshot' = selected_snapshot
       /\ (KeyY /\ popup_state = ConfirmRestore /\ IsSome(last_call'))
            => /\ IsSome(selected_snapshot)
               /\ Unwrap(last_call').op = "get_object"
               /\ Unwrap(last_call').key = Some(Unwrap(selected_snapshot).key)]_vars

\* an Esc waits in the input queue
EscPending == \E i \in 1..Len(pending) : pending[i] = "Esc"

\* C34: an Esc that waits in the input queue when a turn of the chunk loop
\* starts is seen by the poll of that turn, whatever events wait before it:
\* after the turn, in which one chunk is written, ConfirmCancel is shown.
C34_PendingEscSeenWithinOneChunk ==
    [][(DlChunkQueued /\ EscPending) => popup_state'.tag = "ConfirmCancel"]_vars

\* the turn of the chunk loop taken dt ticks after the one before, as far as
\* the rate goes: with 0.5 s or more since the last sample the rate becomes
\* the bytes written since that sample per second and a new sample starts,
\* otherwise rate, sample time and sample bytes stay
RateAfterTurn(dt) ==
    LET millis == 250 * (dl.since + dt)
        bytes == dl'.downloaded - dl.last_bytes
    IN IF millis >= 500
       THEN /\ dl'.current_rate = Frac(1000 * bytes, millis)
            /\ dl'.since = 0
            /\ dl'.last_bytes = dl'.downloaded
       ELSE /\ dl'.current_rate = dl.current_rate
            /\ dl'.since = dl.since + dt
            /\ dl'.last_bytes = dl.last_bytes

\* C35: the rate changes only in a turn of the chunk loop at which 0.5 s or
\* more have passed since the last rate sample, and is then the bytes written
\* since that sample divided by that time; in every other turn it stays, while
\* the progress is bytes over total after every turn; a Downloading popup
\* drawn after the turn shows both.
C35_RateIsThrottled ==
    [][\A dt \in RateTicks, k \in PollEvents :
        (DlTurn(dt, k) /\ pc' = "download")
            => /\ RateAfterTurn(dt)
               /\ popup_state'.tag = "Downloading"
                    => /\ popup_state'.progress = Frac(dl'.downloaded, dl'.total)
                       /\ popup_state'.rate = dl'.current_rate]_vars

\* three chunks: the first a quarter of a second after the start (no sample),
\* the second three quarters later (4 bytes in one second), the third at once
C35_Witness ==
    /\ pc = "download"
    /\ dl.downloaded = 6
    /\ dl.last_bytes = 4
    /\ dl.since = 0
    /\ dl.current_rate = Frac(4, 1)
    /\ popup_state.tag = "Downloading"
    /\ popup_state.rate = Frac(4, 1)
    /\ popup_state.progress = Frac(1, 1)

\* the selection names an entry of the list, or is absent
TuiSelectionInRange ==
    IsNone(selected_idx) \/ Unwrap(selected_idx) \in 0..(Len(snapshots) - 1)

\* C36: in the tui.rs session no Up or Down key panics, the selection is
\* always absent or an index of the snapshot list, and a key at either end of
\* the list leaves the selection where it is instead of wrapping around.
C36_TuiSelectionStaysInRange ==
    [][/\ pc' # "panicked"
       /\ TuiSelectionInRange'
       /\ (IsSome(selected_idx) /\ snapshots' = snapshots /\ TuiSelectionInRange)
            => /\ IsSome(selected_idx')
               /\ Unwrap(selected_idx') - Unwrap(selected_idx) \in {-1, 0, 1}]_vars

\* C37: in every state of the session the selection is absent exactly when
\* the snapshot list is empty.
C37_SelectionAbsentIffListEmpty == IsNone(selected_idx) <=> snapshots = <<>>

\* a list of two snapshots with the second one selected by the Down key
C37_Witness ==
    /\ Len(snapshots) = 2
    /\ selected_idx = Some(1)
    /\ pc = "loop"
    /\ keys_read >= 1
    /\ last_call = None

\* C38: after a load_snapshots call that returned success the config holds no
\* validation error: a message recorded by an earlier failed listing or failed
\* validation does not outlive a successful listing.
C38_ErrorClearedBySuccessfulListing ==
    ListingSucceeded => IsNone(config.error_message)

\* the DatabaseConfig field that a focus names
PgFieldOf(f) ==
    CASE f = "PgHost" -> "host"
      [] f = "PgPort" -> "port"
      [] f = "PgUsername" -> "username"
      [] f = "PgPassword" -> "password"
      [] f = "PgSsl" -> "use_ssl"
      [] f = "PgDbName" -> "db_name"

\* C39: the commit of an edit of a DatabaseConfig field changes only that
\* field, the input mode and possibly the popup: the ObjectStoreConfig with
\* its validation error, the client handle, the snapshot list and the
\* selection stay as they are, and no object-store call is issued.
C39_DatabaseCommitFrame ==
    [][(EditEnter /\ focus \in PgFields)
         => /\ \A g \in DOMAIN pg_config :
                 g # PgFieldOf(focus) => pg_config'[g] = pg_config[g]
            /\ config' = config
            /\ s3_client' = s3_client
            /\ snapshots' = snapshots
            /\ selected_idx' = selected_idx
            /\ IsNone(last_call')
            /\ UNCHANGED <<input_buffer, focus, temp_file, pc, result, dl, fs>>]_vars

====
